---- MODULE Spec2Model ----
(***************************************************************************)
(* Model of the Namespace provider (packages/namespace/src/index.ts).      *)
(*                                                                         *)
(* Text that the code only compares or tests for emptiness (tokens, ids,   *)
(* paths, endpoints) is a TLA+ string, "" standing for an absent or empty  *)
(* value (the code reads them with `||` and `!x`, which treat both alike). *)
(* Text that the code builds or searches (error messages, the composed     *)
(* shell command) is a sequence of pieces: a literal of the source is one  *)
(* piece, variable text is one character per piece.  No literal of an      *)
(* error message contains a digit, so a search for "404" is exact.         *)
(* Base64 payloads and their decodings are sequences of code units.        *)
(***************************************************************************)
EXTENDS Integers, Sequences, FiniteSets, TLC

VARIABLES
  env,        \* process.env: NSC_TOKEN and NSC_TOKEN_FILE
  held,       \* the sandbox record the caller holds (a set of at most one)
  op,         \* the operation of the last call
  args,       \* its arguments
  resp,       \* the answer the remote gave to its request
  result,     \* what it returned or threw
  requests,   \* the requests it issued
  warnings,   \* what it wrote with console.warn
  fileReads,  \* the files it read
  bodyReads   \* how many times it called response.json()

vars == <<env, held, op, args, resp, result, requests, warnings, fileReads, bodyReads>>

-----------------------------------------------------------------------------
(* Text helpers *)

\* s.includes(sub)
Includes(s, sub) ==
  \E i \in 0..(Len(s) - Len(sub)) :
    \A j \in 1..Len(sub) : s[i + j] = sub[j]

\* sub occurs in s starting at position i
OccursAt(s, sub, i) ==
  /\ i >= 1
  /\ i + Len(sub) - 1 <= Len(s)
  /\ \A j \in 1..Len(sub) : s[i + j - 1] = sub[j]

Digit == <<"0", "1", "2", "3", "4", "5", "6", "7", "8", "9">>

\* `${n}` for a non-negative integer
RECURSIVE NumberToString(_)
NumberToString(n) ==
  IF n < 10 THEN <<Digit[n + 1]>>
  ELSE NumberToString(n \div 10) \o <<Digit[(n % 10) + 1]>>

-----------------------------------------------------------------------------
(* Credential resolver *)

\* The token files the model's file system holds.
FileSystem ==
  [p \in {"/cfg.json", "/env.json", "/empty.json", "/bad.json", "/missing.json"} |->
     CASE p = "/cfg.json"     -> [exists |-> TRUE,  json |-> TRUE,  bearer_token |-> "tF"]
       [] p = "/env.json"     -> [exists |-> TRUE,  json |-> TRUE,  bearer_token |-> "tG"]
       [] p = "/empty.json"   -> [exists |-> TRUE,  json |-> TRUE,  bearer_token |-> ""]
       [] p = "/bad.json"     -> [exists |-> TRUE,  json |-> FALSE, bearer_token |-> ""]
       [] p = "/missing.json" -> [exists |-> FALSE, json |-> FALSE, bearer_token |-> ""]]

NoError == [type |-> "none", msg |-> <<>>]

loadTokenFromFile(filePath) ==
  LET f == FileSystem[filePath] IN
  IF ~f.exists THEN
    [ok |-> FALSE, token |-> "",
     err |-> [type |-> "FsError", msg |-> <<"ENOENT: no such file or directory">>]]
  ELSE IF ~f.json THEN
    [ok |-> FALSE, token |-> "",
     err |-> [type |-> "SyntaxError", msg |-> <<"Unexpected token in JSON">>]]
  ELSE IF f.bearer_token = "" THEN
    [ok |-> FALSE, token |-> "",
     err |-> [type |-> "ConfigurationError",
              msg |-> <<"Token file ", filePath, " does not contain a bearer_token">>]]
  ELSE [ok |-> TRUE, token |-> f.bearer_token, err |-> NoError]

\* a || b on strings
Or(a, b) == IF a # "" THEN a ELSE b

\* the environment's token preferred to the config's
getAndValidateCredentials_EnvFirst(config, e) ==
  LET direct    == Or(e.NSC_TOKEN, Or(config.token, ""))
      tokenFile == Or(config.tokenFile, Or(e.NSC_TOKEN_FILE, ""))
      reads     == IF direct = "" /\ tokenFile # "" THEN <<tokenFile>> ELSE <<>>
      loaded    == IF reads # <<>> THEN loadTokenFromFile(tokenFile)
                   ELSE [ok |-> TRUE, token |-> direct, err |-> NoError]
  IN
  IF ~loaded.ok THEN
    [ok |-> FALSE, token |-> "", err |-> loaded.err, reads |-> reads]
  ELSE IF loaded.token = "" THEN
    [ok |-> FALSE, token |-> "",
     err |-> [type |-> "ConfigurationError", msg |-> <<"Missing Namespace token.">>],
     reads |-> reads]
  ELSE [ok |-> TRUE, token |-> loaded.token, err |-> NoError, reads |-> reads]

getAndValidateCredentials(config, e) ==
  LET direct    == Or(config.token, Or(e.NSC_TOKEN, ""))
      tokenFile == Or(config.tokenFile, Or(e.NSC_TOKEN_FILE, ""))
      reads     == IF direct = "" /\ tokenFile # "" THEN <<tokenFile>> ELSE <<>>
      loaded    == IF reads # <<>> THEN loadTokenFromFile(tokenFile)
                   ELSE [ok |-> TRUE, token |-> direct, err |-> NoError]
  IN
  IF ~loaded.ok THEN
    [ok |-> FALSE, token |-> "", err |-> loaded.err, reads |-> reads]
  ELSE IF loaded.token = "" THEN
    [ok |-> FALSE, token |-> "",
     err |-> [type |-> "ConfigurationError", msg |-> <<"Missing Namespace token. Provide token in config, set NSC_TOKEN, or set NSC_TOKEN_FILE environment variable (or provide tokenFile in config).">>],
     reads |-> reads]
  ELSE [ok |-> TRUE, token |-> loaded.token, err |-> NoError, reads |-> reads]

-----------------------------------------------------------------------------
(* Transport adapter *)

API_ENDPOINTS ==
  [CREATE_INSTANCE   |-> "/namespace.cloud.compute.v1beta.ComputeService/CreateInstance",
   DESCRIBE_INSTANCE |-> "/namespace.cloud.compute.v1beta.ComputeService/DescribeInstance",
   LIST_INSTANCES    |-> "/namespace.cloud.compute.v1beta.ComputeService/ListInstances",
   DESTROY_INSTANCE  |-> "/namespace.cloud.compute.v1beta.ComputeService/DestroyInstance"]

COMMAND_SERVICE ==
  [RUN_COMMAND_SYNC |-> "/namespace.cloud.compute.v1beta.CommandService/RunCommandSync"]

DefaultBaseUrl == "https://us.compute.namespaceapis.com"

\* success taken to be status 200 alone
ResponseOk_Only200(response) == response.status = 200

\* response.ok
ResponseOk(response) == response.status >= 200 /\ response.status <= 299

\* handleApiErrors(data): the error it throws, NoError when it returns.
\* A body that parses is a JSON object; an absent or empty error field is <<>>.
handleApiErrors(data) ==
  IF data.error # <<>>
  THEN [type |-> "ApiError", msg |-> <<"Namespace API error: ">> \o data.error]
  ELSE NoError

\* One call of fetchNamespace against a remote that answers `response`:
\* the request issued, whether response.json() was called, and the outcome.
fetchNamespace(token, endpoint, body, baseUrl, response) ==
  LET request == [url |-> <<baseUrl, endpoint>>, method |-> "POST",
                  authorization |-> <<"Bearer ", token>>,
                  contentType |-> "application/json", body |-> body]
      thrown(e, parsed) == [request |-> request, ok |-> FALSE, parsed |-> parsed,
                            data |-> [error |-> <<>>], err |-> e]
  IN
  IF response.kind = "reject" THEN
    thrown([type |-> "NetworkError", msg |-> response.message], FALSE)
  ELSE IF ~ResponseOk(response) THEN
    thrown([type |-> "TransportError",
            msg |-> <<"Namespace API error: ">> \o NumberToString(response.status)
                    \o <<" ">> \o response.statusText], FALSE)
  ELSE IF ~response.parses THEN
    thrown([type |-> "SyntaxError", msg |-> <<"Unexpected token in JSON">>], TRUE)
  ELSE IF handleApiErrors(response.data) # NoError THEN
    thrown(handleApiErrors(response.data), TRUE)
  ELSE [request |-> request, ok |-> TRUE, parsed |-> TRUE,
        data |-> response.data, err |-> NoError]

\* `prefix: ${error.message}`
Wrap(type, prefix, e) == [type |-> type, msg |-> <<prefix>> \o e.msg]

-----------------------------------------------------------------------------
(* Lifecycle manager *)

\* new Date() / Date.now() at the time of a call
Now == 1700003600

Sandbox(instanceId, endpoint, token, containerName, createdAt) ==
  [instanceId |-> instanceId,
   name |-> <<"instance-", instanceId>>,
   commandServiceEndpoint |-> endpoint,
   token |-> token,
   targetContainerName |-> containerName,
   createdAt |-> createdAt]

Returned(v) == [status |-> "returned", value |-> v, err |-> NoError]
Thrown(e)   == [status |-> "thrown", value |-> <<>>, err |-> e]

\* What one call did: its result, the requests it issued, the warnings it
\* logged, the files it read and the response bodies it parsed.
Outcome(res, reqs, warns, reads, parsed) ==
  [result |-> res, requests |-> reqs, warnings |-> warns,
   fileReads |-> reads, bodyReads |-> parsed]

Parsed(f) == IF f.parsed THEN 1 ELSE 0

create(config, options, e, response) ==
  LET cred == getAndValidateCredentials(config, e)
      containerName == Or(config.targetContainerName, "main-container")
      requestBody ==
        [shape |-> [virtual_cpu |-> IF config.virtualCpu # 0 THEN config.virtualCpu ELSE 2,
                    memory_megabytes |-> IF config.memoryMegabytes # 0
                                         THEN config.memoryMegabytes ELSE 4096,
                    machine_arch |-> Or(config.machineArch, "amd64"),
                    os |-> Or(config.os, "linux")],
         containers |-> <<[name |-> containerName,
                           image_ref |-> IF options.hasImage THEN options.image
                                         ELSE "ubuntu:latest",
                           args |-> <<"sleep", "infinity">>,
                           environment |-> options.envs]>>,  \* <<>>: left out
         documented_purpose |-> Or(config.documentedPurpose, "ComputeSDK sandbox"),
         deadline |-> Now + 60 * 60 * 1000]
      f == fetchNamespace(cred.token, API_ENDPOINTS.CREATE_INSTANCE, requestBody,
                          DefaultBaseUrl, response)
      instanceId == f.data.metadata.instanceId
  IN
  IF ~cred.ok THEN Outcome(Thrown(cred.err), <<>>, <<>>, cred.reads, 0)
  ELSE IF ~f.ok THEN
    Outcome(Thrown(Wrap(f.err.type, "Failed to create Namespace instance: ", f.err)),
            <<f.request>>, <<>>, cred.reads, Parsed(f))
  ELSE IF instanceId = "" THEN
    Outcome(Thrown(Wrap("LifecycleError", "Failed to create Namespace instance: ",
                        [type |-> "LifecycleError",
                         msg |-> <<"Instance ID is undefined. Full response object: ",
                                   "JSON.stringify(responseData)">>])),
            <<f.request>>, <<>>, cred.reads, Parsed(f))
  ELSE
    Outcome(Returned(<<[sandbox |-> Sandbox(instanceId,
                                            f.data.extendedMetadata.commandServiceEndpoint,
                                            cred.token, containerName, Now),
                        sandboxId |-> instanceId]>>),
            <<f.request>>, <<>>, cred.reads, Parsed(f))

\* new Date(createdAt), new Date(0) when the response has none
CreatedAt(metadata) == IF metadata.createdAt # 0 THEN metadata.createdAt ELSE 0

getById(config, sandboxId, e, response) ==
  LET cred == getAndValidateCredentials(config, e)
      f == fetchNamespace(cred.token, API_ENDPOINTS.DESCRIBE_INSTANCE,
                          [instance_id |-> sandboxId], DefaultBaseUrl, response)
      instanceId == f.data.metadata.instanceId
      error == IF ~f.ok THEN f.err
               ELSE IF instanceId = "" THEN
                 [type |-> "LifecycleError",
                  msg |-> <<"Instance data is missing from Namespace response">>]
               ELSE NoError
  IN
  IF ~cred.ok THEN Outcome(Thrown(cred.err), <<>>, <<>>, cred.reads, 0)
  ELSE IF error # NoError THEN
    IF Includes(error.msg, <<"4", "0", "4">>)
    THEN Outcome(Returned(<<>>), <<f.request>>, <<>>, cred.reads, Parsed(f))
    ELSE Outcome(Thrown(Wrap(error.type, "Failed to get Namespace instance: ", error)),
                 <<f.request>>, <<>>, cred.reads, Parsed(f))
  ELSE
    Outcome(Returned(<<[sandbox |-> Sandbox(instanceId,
                                            f.data.extendedMetadata.commandServiceEndpoint,
                                            cred.token,
                                            Or(config.targetContainerName, "main-container"),
                                            CreatedAt(f.data.metadata)),
                        sandboxId |-> instanceId]>>),
            <<f.request>>, <<>>, cred.reads, Parsed(f))

\* instances.filter(...)
RECURSIVE FilterInstances(_)
FilterInstances(instances) ==
  IF instances = <<>> THEN <<>>
  ELSE LET d == Head(instances) IN
       (IF d.instanceId # "" \/ d.metadata.instanceId # "" THEN <<d>> ELSE <<>>)
       \o FilterInstances(Tail(instances))

\* the identifier under metadata preferred to the top-level one
MapInstance_MetadataFirst(instanceData, token, config) ==
  LET instanceId == Or(instanceData.metadata.instanceId, instanceData.instanceId) IN
  [sandbox |-> Sandbox(instanceId, instanceData.extendedMetadata.commandServiceEndpoint,
                       token, Or(config.targetContainerName, "main-container"),
                       CreatedAt(instanceData.metadata)),
   sandboxId |-> instanceId]

\* the function list() maps over the filtered instances
MapInstance(instanceData, token, config) ==
  LET instanceId == Or(instanceData.instanceId, instanceData.metadata.instanceId) IN
  [sandbox |-> Sandbox(instanceId, instanceData.extendedMetadata.commandServiceEndpoint,
                       token, Or(config.targetContainerName, "main-container"),
                       CreatedAt(instanceData.metadata)),
   sandboxId |-> instanceId]

list(config, e, response) ==
  LET cred == getAndValidateCredentials(config, e)
      f == fetchNamespace(cred.token, API_ENDPOINTS.LIST_INSTANCES, [empty |-> TRUE],
                          DefaultBaseUrl, response)
      instances == IF f.data.hasInstances THEN f.data.instances ELSE <<>>
      kept == FilterInstances(instances)
  IN
  IF ~cred.ok THEN Outcome(Thrown(cred.err), <<>>, <<>>, cred.reads, 0)
  ELSE IF ~f.ok THEN
    Outcome(Thrown(Wrap(f.err.type, "Failed to list Namespace instances: ", f.err)),
            <<f.request>>, <<>>, cred.reads, Parsed(f))
  ELSE
    Outcome(Returned([i \in 1..Len(kept) |-> MapInstance(kept[i], cred.token, config)]),
            <<f.request>>, <<>>, cred.reads, Parsed(f))

destroy(config, sandboxId, e, response) ==
  LET cred == getAndValidateCredentials(config, e)
      f == fetchNamespace(cred.token, API_ENDPOINTS.DESTROY_INSTANCE,
                          [instance_id |-> sandboxId,
                           reason |-> Or(config.destroyReason, "ComputeSDK cleanup")],
                          DefaultBaseUrl, response)
  IN
  IF ~cred.ok THEN Outcome(Thrown(cred.err), <<>>, <<>>, cred.reads, 0)
  ELSE IF ~f.ok THEN
    Outcome(Returned(<<>>), <<f.request>>,
            <<<<"Namespace destroy warning: ">> \o f.err.msg>>, cred.reads, Parsed(f))
  ELSE IF f.data.error # <<>> THEN
    Outcome(Returned(<<>>), <<f.request>>,
            <<<<"Namespace destroy warning: ">> \o f.data.error>>, cred.reads, Parsed(f))
  ELSE Outcome(Returned(<<>>), <<f.request>>, <<>>, cred.reads, Parsed(f))

-----------------------------------------------------------------------------
(* Command executor *)

\* The characters escapeShellArg protects with a backslash.
ShellSpecial == {"\\", "$"}

RECURSIVE escapeShellArg(_)
escapeShellArg(arg) ==
  IF arg = <<>> THEN <<>>
  ELSE (IF Head(arg) \in ShellSpecial THEN <<"\\", Head(arg)>> ELSE <<Head(arg)>>)
       \o escapeShellArg(Tail(arg))

\* `${k}=${escapeShellArg(v)}`
Assignment(entry) == entry.k \o <<"=">> \o escapeShellArg(entry.v)

\* Object.entries(env).map(...).join(' ')
RECURSIVE EnvPrefix(_)
EnvPrefix(entries) ==
  IF Len(entries) = 1 THEN Assignment(Head(entries))
  ELSE Assignment(Head(entries)) \o <<" ">> \o EnvPrefix(Tail(entries))

\* `cd ${escapeShellArg(cwd)}`
ChangeDirectory(cwd) == <<"cd ">> \o escapeShellArg(cwd)

WithEnv(fullCommand, options) ==
  IF options.env # <<>> THEN EnvPrefix(options.env) \o <<" ">> \o fullCommand
  ELSE fullCommand

WithCwd(fullCommand, options) ==
  IF options.cwd # <<>> THEN ChangeDirectory(options.cwd) \o <<" && ">> \o fullCommand
  ELSE fullCommand

WithBackground(fullCommand, options) ==
  IF options.background THEN <<"nohup ">> \o fullCommand \o <<" > /dev/null 2>&1 &">>
  ELSE fullCommand

\* the two prefixes applied in the other order
BuildFullCommand_CwdFirst(command, options) ==
  WithBackground(WithEnv(WithCwd(command, options), options), options)

\* the command string runCommand hands to `sh -c`
BuildFullCommand(command, options) ==
  WithBackground(WithCwd(WithEnv(command, options), options), options)

\* The value of a base64 character, -1 for any other code unit
\* ('-' and '_' are the URL-safe forms of '+' and '/').
Base64Value(c) ==
  IF c >= 65 /\ c <= 90 THEN c - 65
  ELSE IF c >= 97 /\ c <= 122 THEN c - 71
  ELSE IF c >= 48 /\ c <= 57 THEN c + 4
  ELSE IF c = 43 \/ c = 45 THEN 62
  ELSE IF c = 47 \/ c = 95 THEN 63
  ELSE -1

\* The values of the legal characters before the first '=': the decoder
\* skips every other character and stops at '='.
RECURSIVE Base64Values(_)
Base64Values(data) ==
  IF data = <<>> \/ Head(data) = 61 THEN <<>>
  ELSE (IF Base64Value(Head(data)) >= 0 THEN <<Base64Value(Head(data))>> ELSE <<>>)
       \o Base64Values(Tail(data))

\* Four values give three bytes; a rest of two gives one byte, of three two.
RECURSIVE Base64Bytes(_)
Base64Bytes(v) ==
  LET b1 == ((v[1] * 4) + (v[2] \div 16)) % 256
      b2 == (((v[2] % 16) * 16) + (v[3] \div 4)) % 256
      b3 == (((v[3] % 4) * 64) + v[4]) % 256
  IN
  IF Len(v) < 2 THEN <<>>
  ELSE IF Len(v) = 2 THEN <<b1>>
  ELSE IF Len(v) = 3 THEN <<b1, b2>>
  ELSE <<b1, b2, b3>> \o Base64Bytes(SubSeq(v, 5, Len(v)))

\* Buffer.from(data, 'base64'): never throws for a string
BufferFromBase64(data) == Base64Bytes(Base64Values(data))

\* buffer.toString(): UTF-8, for bytes below 0xE0.  A byte that begins no
\* well-formed sequence becomes U+FFFD.
RECURSIVE BufferToString(_)
BufferToString(bytes) ==
  IF bytes = <<>> THEN <<>>
  ELSE IF Head(bytes) < 128 THEN <<Head(bytes)>> \o BufferToString(Tail(bytes))
  ELSE IF /\ Head(bytes) >= 194 /\ Head(bytes) <= 223 /\ Len(bytes) >= 2
          /\ bytes[2] >= 128 /\ bytes[2] <= 191
       THEN <<(Head(bytes) % 32) * 64 + (bytes[2] % 64)>>
            \o BufferToString(SubSeq(bytes, 3, Len(bytes)))
  ELSE <<65533>> \o BufferToString(Tail(bytes))

decodeBase64(data) ==
  IF data = <<>> THEN <<>>
  ELSE BufferToString(BufferFromBase64(data))

\* the guard dropped: a command is sent whatever the record
HasCommandEndpoint_Always(sandbox) == TRUE

HasCommandEndpoint(sandbox) == sandbox.commandServiceEndpoint # ""

\* the default container name instead of the record's
CommandRequestBody_DefaultContainer(sandbox, fullCommand) ==
  [instanceId |-> sandbox.instanceId,
   targetContainerName |-> "main-container",
   command |-> [command |-> <<"sh", "-c", fullCommand>>]]

\* the body of the RunCommandSync request
CommandRequestBody(sandbox, fullCommand) ==
  [instanceId |-> sandbox.instanceId,
   targetContainerName |-> sandbox.targetContainerName,
   command |-> [command |-> <<"sh", "-c", fullCommand>>]]

\* the exit code read without a default
ExitCodeOf_NoDefault(data) == data.exitCode.value

\* result.exitCode ?? 0
ExitCodeOf(data) == IF data.exitCode.present THEN data.exitCode.value ELSE 0

runCommand(sandbox, command, options, response) ==
  LET fullCommand == BuildFullCommand(command, options)
      f == fetchNamespace(sandbox.token, COMMAND_SERVICE.RUN_COMMAND_SYNC,
                          CommandRequestBody(sandbox, fullCommand),
                          sandbox.commandServiceEndpoint, response)
  IN
  IF ~HasCommandEndpoint(sandbox) THEN
    Outcome(Thrown([type |-> "UnsupportedOperationError",
                    msg |-> <<"Command service endpoint not available. The instance may not support command execution.">>]),
            <<>>, <<>>, <<>>, 0)
  ELSE IF ~f.ok THEN
    Outcome(Thrown(Wrap("CommandExecutionError", "Namespace command execution failed: ",
                        f.err)),
            <<f.request>>, <<>>, <<>>, Parsed(f))
  ELSE
    Outcome(Returned(<<[stdout |-> decodeBase64(f.data.stdout),
                        stderr |-> decodeBase64(f.data.stderr),
                        exitCode |-> ExitCodeOf(f.data),
                        durationMs |-> Now - Now]>>),  \* Date.now() - startTime
            <<f.request>>, <<>>, <<>>, Parsed(f))

-----------------------------------------------------------------------------
(* Info and capabilities *)

runCode(sandbox) ==
  Outcome(Thrown([type |-> "UnsupportedOperationError",
                  msg |-> <<"Namespace provider does not support runCode. Use runCommand instead.">>]),
          <<>>, <<>>, <<>>, 0)

getInfo(sandbox) ==
  Outcome(Returned(<<[id |-> sandbox.instanceId, provider |-> "namespace",
                      runtime |-> "node", status |-> "running",
                      createdAt |-> sandbox.createdAt, timeout |-> 0,
                      metadata |-> [name |-> sandbox.name,
                                    commandServiceEndpoint |->
                                      sandbox.commandServiceEndpoint]]>>),
          <<>>, <<>>, <<>>, 0)

getUrl(sandbox) ==
  Outcome(Thrown([type |-> "UnsupportedOperationError",
                  msg |-> <<"Namespace provider does not support getUrl.">>]),
          <<>>, <<>>, <<>>, 0)

getInstance(sandbox) == Outcome(Returned(<<sandbox>>), <<>>, <<>>, <<>>, 0)

-----------------------------------------------------------------------------
(* The inputs the model draws from *)

MaxInstances == 2

EmptyConfig ==
  [token |-> "", tokenFile |-> "", virtualCpu |-> 0, memoryMegabytes |-> 0,
   machineArch |-> "", os |-> "", documentedPurpose |-> "", destroyReason |-> "",
   targetContainerName |-> ""]

\* every combination of the two credential fields of a config
CredentialConfigs ==
  {[EmptyConfig EXCEPT !.token = t, !.tokenFile = f] :
     t \in {"", "tC"}, f \in DOMAIN FileSystem \cup {""}}

\* every combination of the two credential variables of the environment
CredentialEnvs == [NSC_TOKEN : {"", "tE"}, NSC_TOKEN_FILE : DOMAIN FileSystem \cup {""}]

\* the configs handed to create, getById, list and destroy
Configs ==
  {EmptyConfig,
   [EmptyConfig EXCEPT !.token = "tC", !.targetContainerName = "app"],
   [EmptyConfig EXCEPT !.tokenFile = "/cfg.json"]}

Envs == [NSC_TOKEN : {"", "tE"}, NSC_TOKEN_FILE : {"", "/empty.json"}]

SandboxIds == {"i1", "i2"}

CommandEndpoint == "https://cmd.i1.example"

NoData == [error |-> <<>>]

NoResponse ==
  [kind |-> "none", message |-> <<>>, status |-> 0, statusText |-> <<>>,
   parses |-> FALSE, data |-> NoData]

Rejected(message) ==
  [kind |-> "reject", message |-> message, status |-> 0, statusText |-> <<>>,
   parses |-> FALSE, data |-> NoData]

Http(status, statusText, parses, data) ==
  [kind |-> "http", message |-> <<>>, status |-> status, statusText |-> statusText,
   parses |-> parses, data |-> data]

TextOK == <<"O", "K">>
TextNotFound == <<"N", "o", "t", " ", "F", "o", "u", "n", "d">>
TextServerError == <<"S", "e", "r", "v", "e", "r", " ", "E", "r", "r", "o", "r">>
TextFetchFailed == <<"f", "e", "t", "c", "h", " ", "f", "a", "i", "l", "e", "d">>
TextBoom == <<"b", "o", "o", "m">>
TextQuota == <<"q", "u", "o", "t", "a", " ", "4", "0", "4", "0">>

\* answers that make fetchNamespace throw
Failures ==
  {Rejected(TextFetchFailed),
   Http(500, TextServerError, FALSE, NoData),
   Http(404, TextNotFound, FALSE, NoData),
   Http(200, TextOK, FALSE, NoData),
   Http(200, TextOK, TRUE, [error |-> TextBoom]),
   Http(200, TextOK, TRUE, [error |-> TextQuota])}

InstanceData(topId, metaId, createdAt, endpoint) ==
  [error |-> <<>>, instanceId |-> topId,
   metadata |-> [instanceId |-> metaId, createdAt |-> createdAt],
   extendedMetadata |-> [commandServiceEndpoint |-> endpoint]]

Instances ==
  {Http(200, TextOK, TRUE, d) :
     d \in {InstanceData("", "i1", 1700000000, CommandEndpoint),
            InstanceData("", "i1", 0, ""),
            InstanceData("", "", 0, "")}}

CreateResponses == {Rejected(TextFetchFailed), Http(500, TextServerError, FALSE, NoData)}
                   \cup Instances

DescribeResponses == Failures \cup Instances

CreateOptions ==
  {[hasImage |-> FALSE, image |-> "", envs |-> <<>>],
   [hasImage |-> TRUE, image |-> "alpine", envs |-> <<>>]}

ListEntries ==
  {InstanceData("i1", "", 0, CommandEndpoint),
   InstanceData("", "i2", 1700000000, ""),
   InstanceData("i1", "i2", 0, ""),
   InstanceData("", "", 0, CommandEndpoint)}

InstanceList(hasInstances, instances) ==
  Http(200, TextOK, TRUE,
       [error |-> <<>>, hasInstances |-> hasInstances, instances |-> instances])

ListFailures ==
  {Rejected(TextFetchFailed),
   Http(500, TextServerError, FALSE, NoData),
   Http(200, TextOK, TRUE, [error |-> TextBoom])}

\* every list of at most MaxInstances entries, and a response without the array
ListResponses ==
  ListFailures \cup {InstanceList(FALSE, <<>>)}
  \cup {InstanceList(TRUE, s) : s \in UNION {[1..n -> ListEntries] : n \in 0..MaxInstances}}

DestroyResponses == Failures \cup {Http(200, TextOK, TRUE, NoData)}

\* "aGVsbG8=", "aGk=", "!!!", "hi there"
PayloadHello == <<97, 71, 86, 115, 98, 71, 56, 61>>
PayloadHi == <<97, 71, 107, 61>>
PayloadBangs == <<33, 33, 33>>
PayloadHiThere == <<104, 105, 32, 116, 104, 101, 114, 101>>

Payloads == {<<>>, PayloadHello, PayloadHi, PayloadBangs, PayloadHiThere}

ExitCodes ==
  {[present |-> FALSE, value |-> -1], [present |-> TRUE, value |-> 0],
   [present |-> TRUE, value |-> 2]}

CommandResult(stdout, stderr, exitCode) ==
  Http(200, TextOK, TRUE,
       [error |-> <<>>, stdout |-> stdout, stderr |-> stderr, exitCode |-> exitCode])

CommandFailures ==
  {Rejected(TextFetchFailed),
   Http(500, TextServerError, FALSE, NoData),
   Http(200, TextOK, FALSE, NoData),
   Http(200, TextOK, TRUE, [error |-> TextBoom])}

CommandResponses ==
  CommandFailures
  \cup {CommandResult(o, e, x) : o \in Payloads, e \in Payloads, x \in ExitCodes}

Commands == {<<"l", "s">>}

EnvFoo == <<[k |-> <<"F", "O", "O">>, v |-> <<"b", "a", "r">>]>>
EnvFooB == <<[k |-> <<"F", "O", "O">>, v |-> <<"b", "a", "r">>], [k |-> <<"B">>, v |-> <<"$", "x">>]>>

RunOptions ==
  [env : {<<>>, EnvFoo, EnvFooB}, cwd : {<<>>, <<"/", "t", "m", "p">>}, background : BOOLEAN]

\* every status class, with and without a body that parses and an error field
FetchResponses ==
  {Rejected(TextFetchFailed)}
  \cup {Http(status, text, parses, [error |-> error]) :
          status \in {199, 200, 204, 299, 300, 404, 500},
          text \in {TextOK, TextNotFound},
          parses \in BOOLEAN,
          error \in {<<>>, TextBoom, TextQuota}}

-----------------------------------------------------------------------------
(* The state machine *)

NoResult == [status |-> "none", value |-> <<>>, err |-> NoError]

Idle ==
  /\ held = {}
  /\ op = "none"
  /\ args = <<>>
  /\ resp = NoResponse
  /\ result = NoResult
  /\ requests = <<>>
  /\ warnings = <<>>
  /\ fileReads = <<>>
  /\ bodyReads = 0

Init == env \in Envs /\ Idle

\* The call `o` with arguments `a`, answered by `response`, did `out`.
Called(o, a, response, out) ==
  /\ op' = o
  /\ args' = a
  /\ resp' = IF out.requests = <<>> THEN NoResponse ELSE response
  /\ result' = out.result
  /\ requests' = out.requests
  /\ warnings' = out.warnings
  /\ fileReads' = out.fileReads
  /\ bodyReads' = out.bodyReads
  /\ UNCHANGED <<env, held>>

CreateWith(configs, responses) ==
  \E config \in configs, options \in CreateOptions, response \in responses :
    Called("create", [config |-> config, options |-> options], response,
           create(config, options, env, response))

GetByIdWith(configs, sandboxIds, responses) ==
  \E config \in configs, sandboxId \in sandboxIds, response \in responses :
    Called("getById", [config |-> config, sandboxId |-> sandboxId], response,
           getById(config, sandboxId, env, response))

ListWith(configs, responses) ==
  \E config \in configs, response \in responses :
    Called("list", [config |-> config], response, list(config, env, response))

DestroyWith(configs, sandboxIds, responses) ==
  \E config \in configs, sandboxId \in sandboxIds, response \in responses :
    Called("destroy", [config |-> config, sandboxId |-> sandboxId], response,
           destroy(config, sandboxId, env, response))

RunCommandWith(optionsSet, responses) ==
  \E sandbox \in held, command \in Commands, options \in optionsSet,
     response \in responses :
    Called("runCommand", [sandbox |-> sandbox, command |-> command, options |-> options],
           response, runCommand(sandbox, command, options, response))

Create == CreateWith(Configs, CreateResponses)

GetById == GetByIdWith(Configs, {"i1"}, DescribeResponses)

List ==
  ListWith(Configs,
           {Rejected(TextFetchFailed), InstanceList(FALSE, <<>>),
            InstanceList(TRUE, <<InstanceData("i1", "", 0, CommandEndpoint),
                                 InstanceData("", "", 0, ""),
                                 InstanceData("", "i2", 1700000000, "")>>)})

Destroy == DestroyWith(Configs, SandboxIds, DestroyResponses)

RunCommand ==
  RunCommandWith({[env |-> <<>>, cwd |-> <<>>, background |-> FALSE],
                  [env |-> EnvFoo, cwd |-> <<"/", "t", "m", "p">>, background |-> FALSE],
                  [env |-> EnvFoo, cwd |-> <<"/", "t", "m", "p">>, background |-> TRUE]},
                 CommandFailures
                 \cup {CommandResult(PayloadHello, <<>>, [present |-> TRUE, value |-> 0]),
                       CommandResult(PayloadBangs, PayloadHi,
                                     [present |-> TRUE, value |-> 2]),
                       CommandResult(<<>>, PayloadHiThere,
                                     [present |-> FALSE, value |-> -1])})

RunCode ==
  \E sandbox \in held :
    Called("runCode", [sandbox |-> sandbox], NoResponse, runCode(sandbox))

GetInfo ==
  \E sandbox \in held :
    Called("getInfo", [sandbox |-> sandbox], NoResponse, getInfo(sandbox))

GetUrl ==
  \E sandbox \in held :
    Called("getUrl", [sandbox |-> sandbox], NoResponse, getUrl(sandbox))

GetInstance ==
  \E sandbox \in held :
    Called("getInstance", [sandbox |-> sandbox], NoResponse, getInstance(sandbox))

\* The caller keeps a record that create, getById or list returned.
Keep ==
  /\ held = {}
  /\ op \in {"create", "getById", "list"}
  /\ result.status = "returned"
  /\ \E i \in 1..Len(result.value) : held' = {result.value[i].sandbox}
  /\ UNCHANGED <<env, op, args, resp, result, requests, warnings, fileReads, bodyReads>>

\* The caller lets go of the record it holds.
Drop ==
  /\ held # {}
  /\ held' = {}
  /\ UNCHANGED <<env, op, args, resp, result, requests, warnings, fileReads, bodyReads>>

\* The environment's credentials change between two calls.
SetEnvWithin(envs) ==
  /\ env' \in envs \ {env}
  /\ op' = "setEnv"
  /\ args' = <<>>
  /\ resp' = NoResponse
  /\ result' = NoResult
  /\ requests' = <<>>
  /\ warnings' = <<>>
  /\ fileReads' = <<>>
  /\ bodyReads' = 0
  /\ UNCHANGED held

SetEnv == SetEnvWithin(Envs)

Next ==
  \/ Create
  \/ GetById
  \/ List
  \/ Destroy
  \/ RunCommand
  \/ RunCode
  \/ GetInfo
  \/ GetUrl
  \/ GetInstance
  \/ Keep
  \/ Drop
  \/ SetEnv

\* The provider's operations, each on a few inputs of every kind.
Spec == Init /\ [][Next]_vars

-----------------------------------------------------------------------------
(* The credential resolver on every combination of its sources *)

GetAndValidateCredentials ==
  \E config \in CredentialConfigs :
    LET cred == getAndValidateCredentials(config, env) IN
    Called("getAndValidateCredentials", [config |-> config], NoResponse,
           Outcome(IF cred.ok THEN Returned(<<[token |-> cred.token]>>)
                   ELSE Thrown(cred.err),
                   <<>>, <<>>, cred.reads, 0))

SetCredentialEnv == SetEnvWithin(CredentialEnvs)

InitCredentials == env \in CredentialEnvs /\ Idle

NextCredentials == GetAndValidateCredentials \/ SetCredentialEnv

SpecCredentials == InitCredentials /\ [][NextCredentials]_vars

-----------------------------------------------------------------------------
(* The transport adapter on every class of response *)

FetchNamespace ==
  \E token \in {"tC", "tE"}, endpoint \in {API_ENDPOINTS.LIST_INSTANCES,
                                             API_ENDPOINTS.DESCRIBE_INSTANCE},
     response \in FetchResponses :
    LET f == fetchNamespace(token, endpoint, [empty |-> TRUE], DefaultBaseUrl, response) IN
    Called("fetchNamespace", [token |-> token, endpoint |-> endpoint], response,
           Outcome(IF f.ok THEN Returned(<<f.data>>) ELSE Thrown(f.err),
                   <<f.request>>, <<>>, <<>>, Parsed(f)))

NextTransport == FetchNamespace

SpecTransport == Init /\ [][NextTransport]_vars

-----------------------------------------------------------------------------
(* list on every response of at most MaxInstances entries *)

ListAny == ListWith(Configs, ListResponses)

NextList == ListAny \/ SetEnv

SpecList == Init /\ [][NextList]_vars

-----------------------------------------------------------------------------
(* runCommand on every combination of options and output payloads *)

CreateForCommand ==
  CreateWith({[EmptyConfig EXCEPT !.token = "tC", !.targetContainerName = "app"]},
             Instances)

RunAnyCommand == RunCommandWith(RunOptions, CommandResponses)

InitCommand == env = [NSC_TOKEN |-> "", NSC_TOKEN_FILE |-> ""] /\ Idle

NextCommand == CreateForCommand \/ Keep \/ Drop \/ RunAnyCommand

SpecCommand == InitCommand /\ [][NextCommand]_vars

-----------------------------------------------------------------------------
(* Claims *)

\* The answer makes the remote call fail: the request is rejected, the status
\* is outside 200..299, the body is no JSON, or it carries an error field.
RemoteFailed(response) ==
  \/ response.kind = "reject"
  \/ response.status < 200
  \/ response.status > 299
  \/ ~response.parses
  \/ response.data.error # <<>>

\* The token file a config and an environment name, "" when they name none.
TokenFileOf(config, e) ==
  IF config.tokenFile # "" THEN config.tokenFile ELSE e.NSC_TOKEN_FILE

\* Some credential source yields a token.
CanResolve(config, e) ==
  \/ config.token # ""
  \/ e.NSC_TOKEN # ""
  \/ /\ TokenFileOf(config, e) # ""
     /\ FileSystem[TokenFileOf(config, e)].exists
     /\ FileSystem[TokenFileOf(config, e)].json
     /\ FileSystem[TokenFileOf(config, e)].bearer_token # ""

\* C1: destroy never throws, whatever the config and whatever the remote
\* answers, and every failure (no credential, a failed remote call) is
\* recorded as a warning.
C1_DestroyNeverPropagates ==
  op = "destroy" =>
    /\ result.status = "returned"
    /\ (~CanResolve(args.config, env) \/ RemoteFailed(resp)) => warnings # <<>>

\* C2: getById returns null exactly when the describe call failed with HTTP
\* status 404; every other failure is thrown.
C2_NullExactlyOn404 ==
  (op = "getById" /\ requests # <<>>) =>
    ((result.status = "returned" /\ result.value = <<>>)
       <=> (resp.kind = "http" /\ resp.status = 404))

\* C9: every call issues at most one request: create, getById, list and
\* destroy exactly one when a credential resolves and none otherwise;
\* runCommand exactly one on a record with a command endpoint and none (an
\* UnsupportedOperationError) on a record without; the others none.
C9_AtMostOneRequest ==
  /\ Len(requests) <= 1
  /\ op \in {"create", "getById", "list", "destroy"} =>
       Len(requests) = (IF CanResolve(args.config, env) THEN 1 ELSE 0)
  /\ op = "runCommand" =>
       IF args.sandbox.commandServiceEndpoint # ""
       THEN Len(requests) = 1
       ELSE /\ requests = <<>>
            /\ result.status = "thrown"
            /\ result.err.type = "UnsupportedOperationError"
  /\ op \in {"getInfo", "runCode", "getUrl", "getInstance"} => requests = <<>>

\* A call whose one request failed: it was not sent again.
C9_Witness ==
  /\ op = "getById"
  /\ Len(requests) = 1
  /\ RemoteFailed(resp)
  /\ result.status = "thrown"

\* The request of a runCommand call carries the token, instance id, container
\* name and command endpoint of the record the call was given.
C10_RequestOfRecord ==
  (op = "runCommand" /\ requests # <<>>) =>
    /\ requests[1].authorization = <<"Bearer ", args.sandbox.token>>
    /\ requests[1].body.instanceId = args.sandbox.instanceId
    /\ requests[1].body.targetContainerName = args.sandbox.targetContainerName
    /\ requests[1].url = <<args.sandbox.commandServiceEndpoint,
                           COMMAND_SERVICE.RUN_COMMAND_SYNC>>

\* C10: runCommand sends the token, instance id, container name and command
\* endpoint of the record it is given, whatever the environment now holds,
\* and no step changes a record the caller holds.
C10_RecordIsSnapshot ==
  /\ []C10_RequestOfRecord
  /\ [][(held # {} /\ held' # {}) => held' = held]_vars

\* A command sent for a record made with the config's token and container
\* "app", while the environment now offers another token.
C10_Witness ==
  /\ op = "runCommand"
  /\ requests # <<>>
  /\ args.sandbox.token = "tC"
  /\ args.sandbox.targetContainerName = "app"
  /\ env.NSC_TOKEN = "tE"
  /\ requests[1].authorization = <<"Bearer ", "tC">>

\* The command string of the request a runCommand call sent.
SentCommand == requests[1].body.command.command[3]

\* `first` occurs in s, and `second` occurs after the end of that occurrence.
Precedes(s, first, second) ==
  \E i \in 1..Len(s), j \in 1..Len(s) :
    /\ OccursAt(s, first, i)
    /\ OccursAt(s, second, j)
    /\ i + Len(first) <= j

\* A command was sent with environment variables and a working directory.
SentWithEnvAndCwd ==
  /\ op = "runCommand"
  /\ requests # <<>>
  /\ args.options.env # <<>>
  /\ args.options.cwd # <<>>

\* C3 as stated: every KEY=value assignment comes before the change of
\* directory, which comes before the command.
C3_EnvBeforeCd ==
  SentWithEnvAndCwd =>
    /\ \A n \in DOMAIN args.options.env :
         Precedes(SentCommand, Assignment(args.options.env[n]),
                  ChangeDirectory(args.options.cwd))
    /\ Precedes(SentCommand, ChangeDirectory(args.options.cwd), args.command)

\* C3 amended: the change of directory comes before every KEY=value
\* assignment, and every assignment comes before the command.
C3_CdBeforeEnv ==
  SentWithEnvAndCwd =>
    \A n \in DOMAIN args.options.env :
      /\ Precedes(SentCommand, ChangeDirectory(args.options.cwd),
                  Assignment(args.options.env[n]))
      /\ Precedes(SentCommand, Assignment(args.options.env[n]), args.command)

\* env = {FOO: "bar"}, cwd = "/tmp", no background: the command sent is the
\* change of directory, " && ", the assignment of FOO, a space, the command.
C3_Witness ==
  /\ SentWithEnvAndCwd
  /\ args.options.env = EnvFoo
  /\ ~args.options.background
  /\ SentCommand = ChangeDirectory(args.options.cwd) \o <<" && ">>
                   \o Assignment(EnvFoo[1]) \o <<" ">> \o args.command

\* C6: on a record with a command endpoint runCommand throws (a
\* CommandExecutionError) exactly when the remote call fails; otherwise it
\* returns the response's exit code, 0 when the response has none.
C6_ExitCodeIsData ==
  (op = "runCommand" /\ args.sandbox.commandServiceEndpoint # "") =>
    /\ (result.status = "thrown") <=> RemoteFailed(resp)
    /\ result.status = "thrown" => result.err.type = "CommandExecutionError"
    /\ result.status # "thrown" =>
         /\ result.status = "returned"
         /\ Len(result.value) = 1
         /\ resp.data.exitCode.present =>
              result.value[1].exitCode = resp.data.exitCode.value
         /\ ~resp.data.exitCode.present => result.value[1].exitCode = 0

\* A command that ended with exit code 2 is returned, not thrown.
C6_Witness ==
  /\ op = "runCommand"
  /\ result.status = "returned"
  /\ resp.data.exitCode = [present |-> TRUE, value |-> 2]
  /\ result.value[1].exitCode = 2

\* A payload in canonical base64: whole groups of four characters of the
\* alphabet, the last one padded with at most two '='.
CanonicalBase64(data) ==
  /\ Len(data) % 4 = 0
  /\ \A i \in 1..Len(data) :
       \/ Base64Value(data[i]) >= 0 /\ data[i] # 45 /\ data[i] # 95
       \/ /\ data[i] = 61
          /\ i >= Len(data) - 1
          /\ \A j \in i..Len(data) : data[j] = 61

C4_FirstSourceWins ==
  op = "getAndValidateCredentials" =>
    LET config == args.config
        file == TokenFileOf(config, env)
        yields(t) == result.status = "returned" /\ result.value = <<[token |-> t]>>
        failsWith(type) == result.status = "thrown" /\ result.err.type = type
    IN
    /\ config.token # "" => yields(config.token) /\ fileReads = <<>>
    /\ (config.token = "" /\ env.NSC_TOKEN # "") =>
         yields(env.NSC_TOKEN) /\ fileReads = <<>>
    /\ (config.token = "" /\ env.NSC_TOKEN = "" /\ file = "") =>
         failsWith("ConfigurationError") /\ fileReads = <<>>
    /\ (config.token = "" /\ env.NSC_TOKEN = "" /\ file # "") =>
         /\ fileReads = <<file>>
         /\ CanResolve(config, env) => yields(FileSystem[file].bearer_token)
         /\ (FileSystem[file].exists /\ FileSystem[file].json
             /\ FileSystem[file].bearer_token = "") => failsWith("ConfigurationError")
         /\ ~CanResolve(config, env) => result.status = "thrown"

\* With no direct token, the file the config names is read, not the one the
\* environment names, and its bearer_token is the result.
C4_Witness ==
  /\ op = "getAndValidateCredentials"
  /\ args.config.token = ""
  /\ args.config.tokenFile = "/cfg.json"
  /\ env = [NSC_TOKEN |-> "", NSC_TOKEN_FILE |-> "/env.json"]
  /\ fileReads = <<"/cfg.json">>
  /\ result.value = <<[token |-> "tF"]>>

\* An entry of a list response carries an identifier, and which one.
HasIdentifier(entry) == entry.instanceId # "" \/ entry.metadata.instanceId # ""

IdentifierOf(entry) ==
  IF entry.instanceId # "" THEN entry.instanceId ELSE entry.metadata.instanceId

\* C5: a successful list response gives one record, in the response's order,
\* for each entry with an identifier (the top-level one first), none for an
\* entry without, and an empty result for an empty or missing array.
C5_OneRecordPerIdentifiedEntry ==
  (op = "list" /\ requests # <<>> /\ ~RemoteFailed(resp)) =>
    LET instances == IF resp.data.hasInstances THEN resp.data.instances ELSE <<>>
        kept == {i \in DOMAIN instances : HasIdentifier(instances[i])}
        rank(i) == Cardinality({j \in kept : j <= i})
    IN
    /\ result.status = "returned"
    /\ Len(result.value) = Cardinality(kept)
    /\ \A i \in kept :
         /\ result.value[rank(i)].sandboxId = IdentifierOf(instances[i])
         /\ result.value[rank(i)].sandbox.instanceId = IdentifierOf(instances[i])

\* An entry with both identifiers after an entry with none: one record,
\* under the top-level identifier.
C5_Witness ==
  /\ op = "list"
  /\ result.status = "returned"
  /\ resp.data.hasInstances
  /\ resp.data.instances = <<InstanceData("", "", 0, CommandEndpoint),
                             InstanceData("i1", "i2", 0, "")>>
  /\ Len(result.value) = 1
  /\ result.value[1].sandboxId = "i1"

\* C8: a status outside 200..299 fails with TransportError (status code and
\* text) and the body is never parsed; a success status whose body carries
\* an error field fails with ApiError carrying it; the payload is returned
\* only for a success status without an error field.
C8_OneOutcomePerResponse ==
  (op = "fetchNamespace" /\ resp.kind = "http") =>
    LET success == resp.status >= 200 /\ resp.status <= 299 IN
    /\ ~success =>
         /\ result.status = "thrown"
         /\ result.err.type = "TransportError"
         /\ result.err.msg = <<"Namespace API error: ">> \o NumberToString(resp.status)
                             \o <<" ">> \o resp.statusText
         /\ bodyReads = 0
    /\ (success /\ resp.parses /\ resp.data.error # <<>>) =>
         /\ result.status = "thrown"
         /\ result.err.type = "ApiError"
         /\ result.err.msg = <<"Namespace API error: ">> \o resp.data.error
    /\ (result.status = "returned") <=> (success /\ resp.parses /\ resp.data.error = <<>>)
    /\ result.status = "returned" => result.value = <<resp.data>>

\* Status 204 with no error field: the payload is returned.
C8_Witness ==
  /\ op = "fetchNamespace"
  /\ resp.kind = "http"
  /\ resp.status = 204
  /\ resp.parses
  /\ result.status = "returned"
  /\ bodyReads = 1

====
